---- MODULE Spec2Model ----
(***************************************************************************)
(* A model of the share_map / swap_map crate: the immutable snapshot       *)
(* (FrozenMap / ShareMap: an index map from keys to slot numbers plus a    *)
(* reference-counted value store), the atomically swappable holder         *)
(* (SwapMap, an ArcSwap<FrozenMap>) and the stable value handles           *)
(* (ValueRef / Handle: a share of the value store plus a slot number).     *)
(*                                                                         *)
(* Reference counts are explicit: every Arc<FrozenMap> and every Arc<[V]>  *)
(* is a heap cell with a strong count, and a cell is released when its     *)
(* count reaches zero.  Reading a released cell yields Poison.             *)
(***************************************************************************)
EXTENDS Integers, Sequences, FiniteSets, Bags, TLC

(***************************************************************************)
(* Bounds of the model.                                                    *)
(***************************************************************************)
MaxBuilds == 2      \* successful store/swap builds after construction
MaxHeld == 1        \* snapshot pointers and value handles the callers hold at the same time
MaxLen == 3         \* length of the pair sequences given to the constructors

Threads == {"t1", "t2"}
Keys == {"a", "b", "c"}
Vals == {1, 2}

Pair(k, v) == [k |-> k, v |-> v]
Pairs == [k : Keys, v : Vals]

\* The batches the threads hand to store/swap and to the holder's constructor.
BatchAB == <<Pair("a", 1), Pair("b", 2)>>
BatchAC == <<Pair("a", 2), Pair("c", 1)>>
BatchDup == <<Pair("a", 1), Pair("a", 2)>>
Batches == {BatchAB, BatchAC, BatchDup}

\* All pair sequences of length at most n.
SeqsUpTo(n) == UNION {[1..m -> Pairs] : m \in 0..n}

\* Option values: None is the empty sequence, Some(x) the singleton.
None == <<>>
Some(x) == <<x>>

\* What a read of released or out-of-bounds memory yields.
Poison == 0 - 1

SnapIds == 1..(MaxBuilds + 1)
NoSnap == 0

(***************************************************************************)
(* The index map (std HashMap / BTreeMap from keys to slot numbers).       *)
(***************************************************************************)
EmptyMap == [k \in {} |-> 0]

MapInsert_KeepFirst(m, k, i) ==
    [x \in (DOMAIN m) \cup {k} |-> IF x \in DOMAIN m THEN m[x] ELSE i]

\* HashMap::insert: a later insert of the same key overwrites the earlier one.
MapInsert(m, k, i) == [x \in (DOMAIN m) \cup {k} |-> IF x = k THEN i ELSE m[x]]

\* Map::from_iter over (key, index) pairs: insert them in order.
RECURSIVE MapFromIterFrom(_, _, _)
MapFromIterFrom(m, temp, i) ==
    IF i > Len(temp) THEN m
    ELSE MapFromIterFrom(MapInsert(m, temp[i][1], temp[i][2]), temp, i + 1)

MapFromIter(temp) == MapFromIterFrom(EmptyMap, temp, 1)

MapLen(m) == Cardinality(DOMAIN m)
MapGet(m, k) == IF k \in DOMAIN m THEN Some(m[k]) ELSE None
MapContainsKey(m, k) == k \in DOMAIN m

(***************************************************************************)
(* FrozenMap::from_pairs: push every value to the store, remember          *)
(* (key, index) with index = store.len() before the push, build the index  *)
(* map, and compare its length with the store's.                           *)
(***************************************************************************)
NextIndex_AfterPush(store) == Len(store) + 1

\* let index = store.len();
NextIndex(store) == Len(store)

\* for (key, value) in iter { ... }: the pair <<store, temp>> after the loop
RECURSIVE FromPairsLoop(_, _, _, _)
FromPairsLoop(pairs, i, store, temp) ==
    IF i > Len(pairs) THEN <<store, temp>>
    ELSE LET index == NextIndex(store)
         IN  FromPairsLoop(pairs, i + 1, Append(store, pairs[i].v),
                           Append(temp, <<pairs[i].k, index>>))

FromPairsCheck_Never(index_map, store) == TRUE

\* match index_map.len() == store.len()
FromPairsCheck(index_map, store) == MapLen(index_map) = Len(store)

ErrDuplicateKey == [ok |-> FALSE, index_map |-> EmptyMap, store |-> <<>>]

FromPairs(pairs) ==
    LET filled == FromPairsLoop(pairs, 1, <<>>, <<>>)
        store == filled[1]
        index_map == MapFromIter(filled[2])
    IN  IF FromPairsCheck(index_map, store)
        THEN [ok |-> TRUE, index_map |-> index_map, store |-> store]
        ELSE ErrDuplicateKey

\* SwapMap::from_pairs: FrozenMap::from_pairs(iter).map(|m| Self { datastore: from_pointee(m) })
SwapMapFromPairs(pairs) == FromPairs(pairs)

(***************************************************************************)
(* ShareMap::try_from_iter: enumerate the pairs, unzip them into the       *)
(* values and the (key, index) pairs, build the index map and compare the  *)
(* lengths.                                                                *)
(***************************************************************************)
TryFromIterCheck_Le(index_map, values) == MapLen(index_map) <= Len(values)

\* match index_map.len() == values.len()
TryFromIterCheck(index_map, values) == MapLen(index_map) = Len(values)

TryFromIter(pairs) ==
    LET values == [i \in 1..Len(pairs) |-> pairs[i].v]
        key_index_pairs == [i \in 1..Len(pairs) |-> <<pairs[i].k, i - 1>>]
        index_map == MapFromIter(key_index_pairs)
    IN  IF TryFromIterCheck(index_map, values)
        THEN [ok |-> TRUE, index_map |-> index_map, store |-> values]
        ELSE ErrDuplicateKey

(***************************************************************************)
(* Reads of a map held by value, m = [index_map, store] with the values    *)
(* in place: get, contains_key, len.                                       *)
(***************************************************************************)
\* &self.values[*index]
SliceIndex(values, index) ==
    IF index >= 0 /\ index < Len(values) THEN values[index + 1] ELSE Poison

MapValueGet(m, k) ==
    IF MapGet(m.index_map, k) = None THEN None
    ELSE Some(SliceIndex(m.store, m.index_map[k]))

MapValueContainsKey(m, k) == MapContainsKey(m.index_map, k)

MapValueLen(m) == Len(m.store)

(***************************************************************************)
(* State.                                                                  *)
(***************************************************************************)
VARIABLES
    snaps,      \* heap of Arc<FrozenMap>: id -> [alive, index_map, store, strong]
    stores,     \* heap of Arc<[V]>: id -> [alive, vals, strong]
    datastore,  \* SwapMap.datastore: the id the ArcSwap points to (NoSnap once consumed)
    holder,     \* "live", or how the SwapMap was consumed
    owned,      \* the FrozenMap a consuming call of the holder returned by value
    ptrs,       \* caller-held Arc<FrozenMap> pointers: id -> how many
    handles,    \* caller-held ValueRef / Handle values (a bag)
    pc,         \* per thread: the position inside the running SwapMap call
    arg,        \* per thread: the batch of the running store/swap
    local,      \* per thread: the pointer the call holds (the built `new`, or the load guard)
    ret,        \* the Result tag the last from_pairs/store/swap call returned
    built,      \* how many snapshots have been built (ids are given in build order)
    installed,  \* history: the ids put into the ArcSwap, in order of replacement
    startPos,   \* history, per thread: replacements completed when the running load began
    lastSeen,   \* history, per thread: the latest replacement a finished load observed
    bIn,        \* pure functions: the input (pair sequence; value type and two maps)
    bOut        \* pure functions: what each constructor or comparison returned

vars == <<snaps, stores, datastore, holder, owned, ptrs, handles, pc, arg, local,
          ret, built, installed, startPos, lastSeen, bIn, bOut>>

heapVars == <<snaps, stores>>
histVars == <<built, installed, startPos, lastSeen>>
buildVars == <<bIn, bOut>>

FreedSnap == [alive |-> FALSE, index_map |-> EmptyMap, store |-> NoSnap, strong |-> 0]
FreedStore == [alive |-> FALSE, vals |-> <<>>, strong |-> 0]
NoOwned == [some |-> FALSE, index_map |-> EmptyMap, store |-> NoSnap]

(***************************************************************************)
(* Arc: clone adds an owner, drop removes one and releases the cell with   *)
(* the last owner.  Dropping a FrozenMap drops its index map and its share *)
(* of the value store.                                                     *)
(***************************************************************************)
ArcCloneStore(st, sid) == [st EXCEPT ![sid].strong = @ + 1]

ArcDropStore_Frees(st, sid) == [st EXCEPT ![sid] = FreedStore]

ArcDropStore(st, sid) ==
    IF st[sid].strong <= 1
    THEN [st EXCEPT ![sid] = FreedStore]
    ELSE [st EXCEPT ![sid].strong = @ - 1]

ArcCloneSnap(sn, id) == [sn EXCEPT ![id].strong = @ + 1]

\* heap is [snaps, stores]; the ret is the heap after one owner of id is gone.
ArcDropSnap(heap, id) ==
    IF heap.snaps[id].strong <= 1
    THEN [snaps |-> [heap.snaps EXCEPT ![id] = FreedSnap],
          stores |-> IF heap.snaps[id].alive
                     THEN ArcDropStore(heap.stores, heap.snaps[id].store)
                     ELSE heap.stores]
    ELSE [snaps |-> [heap.snaps EXCEPT ![id].strong = @ - 1],
          stores |-> heap.stores]

Heap == [snaps |-> snaps, stores |-> stores]

ArcTryUnwrapIsOk_Never(sn, id) == FALSE

ArcTryUnwrapIsOk_Always(sn, id) == TRUE

\* Arc::try_unwrap / Arc::unwrap_or_clone: the value moves out only if this
\* is the one strong owner.
ArcTryUnwrapIsOk(sn, id) == sn[id].strong = 1

\* The FrozenMap moved out of, or cloned from, the Arc cell id.
InnerMap(sn, id) ==
    [some |-> TRUE, index_map |-> sn[id].index_map, store |-> sn[id].store]

(***************************************************************************)
(* Reads of a FrozenMap m = [index_map, store] against the store heap st.  *)
(***************************************************************************)
\* &store[index]: slot numbers count from 0.
StoreIndex(st, sid, index) ==
    IF sid \in DOMAIN st /\ st[sid].alive /\ index >= 0 /\ index < Len(st[sid].vals)
    THEN st[sid].vals[index + 1]
    ELSE Poison

FrozenGet(m, st, k) ==
    IF MapGet(m.index_map, k) = None
    THEN None
    ELSE Some(StoreIndex(st, m.store, m.index_map[k]))

FrozenContainsKey(m, k) == MapContainsKey(m.index_map, k)

FrozenLen(m, st) ==
    IF m.store \in DOMAIN st /\ st[m.store].alive THEN Len(st[m.store].vals) ELSE Poison

FrozenIsEmpty(m, st) == FrozenLen(m, st) = 0

ValueRefNew_OneBased(sid, index, orig) ==
    [store |-> sid, index |-> index + 1, orig |-> orig]

\* ValueRef::new(store, index) / Handle::new(store, index)
\* (orig records the value the lookup found, for the checks only.)
ValueRefNew(sid, index, orig) ==
    [store |-> sid, index |-> index, orig |-> orig]

\* Deref for ValueRef / Handle: &self.store[self.index]
Deref(h, st) == StoreIndex(st, h.store, h.index)

GetValueRefStores_NoClone(st, sid) == st

\* The store heap after get_value_ref / get_handle took its share: self.store.clone()
GetValueRefStores(st, sid) == ArcCloneStore(st, sid)

LiveHandles == BagToSet(handles)

RECURSIVE SumPtrs(_)
SumPtrs(ids) ==
    IF ids = {} THEN 0
    ELSE LET i == CHOOSE x \in ids : TRUE IN ptrs[i] + SumPtrs(ids \ {i})
TotalPtrs == SumPtrs(SnapIds)

(***************************************************************************)
(* Positions in the replacement history.                                   *)
(***************************************************************************)
PosOf(id) ==
    LET at == {i \in 1..Len(installed) : installed[i] = id}
    IN  IF at = {} THEN 0 ELSE CHOOSE i \in at : \A j \in at : j <= i

MaxOf(a, b) == IF a >= b THEN a ELSE b

(***************************************************************************)
(* Construction.  SwapMap::from_pairs(batch) wraps the built FrozenMap in  *)
(* ArcSwap::from_pointee; SwapMap::new() is the holder of the empty map.   *)
(***************************************************************************)
NewSnap(r, sid) == [alive |-> TRUE, index_map |-> r.index_map, store |-> sid, strong |-> 1]
NewStore(r) == [alive |-> TRUE, vals |-> r.store, strong |-> 1]

InitHolder(batch) ==
    LET r == FromPairs(batch)
    IN  /\ r.ok
        /\ snaps = [i \in SnapIds |-> IF i = 1 THEN NewSnap(r, 1) ELSE FreedSnap]
        /\ stores = [i \in SnapIds |-> IF i = 1 THEN NewStore(r) ELSE FreedStore]
        /\ datastore = 1
        /\ holder = "live"
        /\ owned = NoOwned
        /\ ptrs = [i \in SnapIds |-> 0]
        /\ handles = EmptyBag
        /\ pc = [t \in Threads |-> "idle"]
        /\ arg = [t \in Threads |-> <<>>]
        /\ local = [t \in Threads |-> NoSnap]
        /\ ret = "Ok"
        /\ built = 1
        /\ installed = <<1>>
        /\ startPos = [t \in Threads |-> 0]
        /\ lastSeen = [t \in Threads |-> 0]

NoneBuilt == [c \in {} |-> ErrDuplicateKey]

Init ==
    /\ InitHolder(BatchAB)
    /\ bIn = <<>>
    /\ bOut = NoneBuilt

(***************************************************************************)
(* Bounds on what the callers may start.                                   *)
(***************************************************************************)
WillHoldPtr == {t \in Threads : pc[t] = "swap_replace"}

CanBuild == built < MaxBuilds + 1
Held == TotalPtrs + Cardinality(WillHoldPtr) + BagCardinality(handles)
CanHoldPtr == Held < MaxHeld
CanHoldHandle == Held < MaxHeld

(***************************************************************************)
(* SwapMap::store and SwapMap::swap.                                       *)
(***************************************************************************)
\* let new = FrozenMap::from_pairs(iter).map(Arc::new)?;
\* An Err leaves through `?`; an Ok goes on to the replacement at `next`.
BuildNew(t, b, next) ==
    LET r == FromPairs(b)
        id == built + 1
    IN  IF r.ok
        THEN /\ snaps' = [snaps EXCEPT ![id] = NewSnap(r, id)]
             /\ stores' = [stores EXCEPT ![id] = NewStore(r)]
             /\ built' = built + 1
             /\ local' = [local EXCEPT ![t] = id]
             /\ arg' = [arg EXCEPT ![t] = b]
             /\ pc' = [pc EXCEPT ![t] = next]
             /\ ret' = ret
        ELSE /\ ret' = "DuplicateKeyError"
             /\ UNCHANGED <<snaps, stores, built, local, arg, pc>>

\* SwapMap::store(batch), up to the replacement
StoreBuild(t, b) ==
    /\ holder = "live" /\ pc[t] = "idle" /\ CanBuild
    /\ BuildNew(t, b, "store_replace")
    /\ UNCHANGED <<datastore, holder, owned, ptrs, handles, installed, startPos, lastSeen>>
    /\ UNCHANGED buildVars

\* SwapMap::swap(batch), up to the replacement
SwapBuild(t, b) ==
    /\ holder = "live" /\ pc[t] = "idle" /\ CanBuild /\ CanHoldPtr
    /\ BuildNew(t, b, "swap_replace")
    /\ UNCHANGED <<datastore, holder, owned, ptrs, handles, installed, startPos, lastSeen>>
    /\ UNCHANGED buildVars

Replacing == {t \in Threads : pc[t] \in {"store_replace", "swap_replace"}}

ArcSwapReplace_Lost(t) == IF Replacing \ {t} # {} THEN datastore ELSE local[t]

\* The pointer the ArcSwap holds after ArcSwap::store(new) / ArcSwap::swap(new).
ArcSwapReplace(t) == local[t]

SwapReturn_New(t) == local[t]

\* What SwapMap::swap hands back: the pointer ArcSwap::swap returned.
SwapReturn(t) == datastore

StoreReleases_Leak(heap, old) == heap

StoreReleases_Frees(heap, old) ==
    [snaps |-> [heap.snaps EXCEPT ![old] = FreedSnap],
     stores |-> ArcDropStore(heap.stores, heap.snaps[old].store)]

\* ArcSwap::store drops the Arc it replaced.
StoreReleases(heap, old) == ArcDropSnap(heap, old)

\* self.datastore.store(new): the holder's share of the old snapshot is dropped.
StoreReplace(t) ==
    /\ pc[t] = "store_replace"
    /\ LET after == StoreReleases(Heap, datastore)
       IN  /\ snaps' = after.snaps
           /\ stores' = after.stores
    /\ datastore' = ArcSwapReplace(t)
    /\ installed' = Append(installed, local[t])
    /\ ret' = "Ok"
    /\ pc' = [pc EXCEPT ![t] = "idle"]
    /\ local' = [local EXCEPT ![t] = NoSnap]
    /\ arg' = [arg EXCEPT ![t] = <<>>]
    /\ UNCHANGED <<holder, owned, ptrs, handles, built, startPos, lastSeen>>
    /\ UNCHANGED buildVars

\* self.datastore.swap(new).into_ok(): the holder's share of the old snapshot
\* moves to the caller.
SwapReplace(t) ==
    /\ pc[t] = "swap_replace"
    /\ LET old == SwapReturn(t)
       IN  /\ ptrs' = [ptrs EXCEPT ![old] = @ + 1]
           /\ ret' = "Ok"
    /\ datastore' = ArcSwapReplace(t)
    /\ installed' = Append(installed, local[t])
    /\ pc' = [pc EXCEPT ![t] = "idle"]
    /\ local' = [local EXCEPT ![t] = NoSnap]
    /\ arg' = [arg EXCEPT ![t] = <<>>]
    /\ UNCHANGED <<snaps, stores, holder, owned, handles, built, startPos, lastSeen>>
    /\ UNCHANGED buildVars

(***************************************************************************)
(* The read path of the holder: snapshot, get, contains_key, len and       *)
(* is_empty all begin with self.datastore.load(), whose guard keeps the    *)
(* loaded snapshot alive until the call is over.                           *)
(***************************************************************************)
\* Entering snapshot, get, contains_key, len or is_empty.
LoadCall(t) ==
    /\ holder = "live" /\ pc[t] = "idle"
    /\ pc' = [pc EXCEPT ![t] = "load"]
    /\ startPos' = [startPos EXCEPT ![t] = Len(installed)]
    /\ UNCHANGED <<snaps, stores, datastore, holder, owned, ptrs, handles, arg, local, ret>>
    /\ UNCHANGED <<built, installed, lastSeen>> /\ UNCHANGED buildVars

Previous == IF Len(installed) > 1 THEN installed[Len(installed) - 1] ELSE datastore

ArcSwapLoad_Previous(t) == Previous

ArcSwapLoad_Torn(t) == IF Replacing # {} THEN Previous ELSE datastore

\* The pointer ArcSwap::load() yields to thread t.
ArcSwapLoad(t) == datastore

LoadStep_Locked(t) ==
    /\ pc[t] = "load" /\ Replacing = {}
    /\ local' = [local EXCEPT ![t] = datastore]
    /\ snaps' = ArcCloneSnap(snaps, datastore)
    /\ pc' = [pc EXCEPT ![t] = "read"]
    /\ UNCHANGED <<stores, datastore, holder, owned, ptrs, handles, arg, ret>>
    /\ UNCHANGED histVars /\ UNCHANGED buildVars

\* self.datastore.load()
LoadStep(t) ==
    /\ pc[t] = "load"
    /\ LET id == ArcSwapLoad(t)
       IN  /\ local' = [local EXCEPT ![t] = id]
           /\ snaps' = ArcCloneSnap(snaps, id)
    /\ pc' = [pc EXCEPT ![t] = "read"]
    /\ UNCHANGED <<stores, datastore, holder, owned, ptrs, handles, arg, ret>>
    /\ UNCHANGED histVars /\ UNCHANGED buildVars

\* FrozenMap::get_value_ref(key) on the map m: the handle it makes, if any.
GetValueRef(m, st, k) ==
    IF MapGet(m.index_map, k) = None
    THEN None
    ELSE Some(ValueRefNew(m.store, m.index_map[k], FrozenGet(m, st, k)[1]))

\* The handles and the store heap after a lookup produced the optional handle h.
KeepHandle(h) ==
    IF h = None
    THEN /\ handles' = handles
         /\ stores' = stores
    ELSE /\ handles' = handles (+) SetToBag({h[1]})
         /\ stores' = GetValueRefStores(stores, h[1].store)

FinishLoad(t) ==
    /\ ret' = ret
    /\ pc' = [pc EXCEPT ![t] = "idle"]
    /\ local' = [local EXCEPT ![t] = NoSnap]
    /\ lastSeen' = [lastSeen EXCEPT ![t] = MaxOf(@, PosOf(local[t]))]
    /\ startPos' = [startPos EXCEPT ![t] = 0]
    /\ UNCHANGED <<datastore, holder, owned, arg, built, installed>>
    /\ UNCHANGED buildVars

\* SwapMap::snapshot: self.datastore.load().clone()
SnapshotRead(t) ==
    /\ pc[t] = "read" /\ CanHoldPtr
    /\ ptrs' = [ptrs EXCEPT ![local[t]] = @ + 1]
    /\ UNCHANGED <<snaps, stores, handles>>
    /\ FinishLoad(t)

GetReleasesGuard_Kept(heap, id) == heap

\* The load guard is a temporary of SwapMap::get: it is dropped when get
\* returns, and the ValueRef takes nothing of the snapshot with it.
GetReleasesGuard(heap, id) == ArcDropSnap(heap, id)

\* SwapMap::get: self.datastore.load().get_value_ref(key)
GetRead(t, k) ==
    /\ pc[t] = "read" /\ CanHoldHandle
    /\ LET m == snaps[local[t]]
           h == GetValueRef(m, stores, k)
       IN  /\ handles' = IF h = None THEN handles ELSE handles (+) SetToBag({h[1]})
           /\ LET st == IF h = None THEN stores ELSE GetValueRefStores(stores, h[1].store)
                  after == GetReleasesGuard([snaps |-> snaps, stores |-> st], local[t])
              IN  /\ snaps' = after.snaps
                  /\ stores' = after.stores
    /\ FinishLoad(t)
    /\ UNCHANGED ptrs

\* SwapMap::contains_key, SwapMap::len, SwapMap::is_empty: the answer is read
\* through the guard, which is then dropped.
PlainRead(t) ==
    /\ pc[t] = "read"
    /\ LET after == ArcDropSnap(Heap, local[t])
       IN  /\ snaps' = after.snaps
           /\ stores' = after.stores
    /\ FinishLoad(t)
    /\ UNCHANGED <<ptrs, handles>>

(***************************************************************************)
(* What the callers do with the pointers, maps and handles they hold.      *)
(***************************************************************************)
\* drop(snapshot) for a caller-held Arc<FrozenMap>
DropPtr(id) ==
    /\ ptrs[id] > 0
    /\ ptrs' = [ptrs EXCEPT ![id] = @ - 1]
    /\ LET after == ArcDropSnap(Heap, id)
       IN  /\ snaps' = after.snaps
           /\ stores' = after.stores
    /\ UNCHANGED <<datastore, holder, owned, handles, pc, arg, local, ret>>
    /\ UNCHANGED histVars /\ UNCHANGED buildVars

\* let value_ref = snapshot.get_value_ref(key); drop(snapshot);
\* on a caller-held Arc<FrozenMap>: the handle takes the pointer's place.
PtrGetValueRef(id, k) ==
    /\ ptrs[id] > 0
    /\ MapContainsKey(snaps[id].index_map, k)
    /\ LET h == GetValueRef(snaps[id], stores, k)
           after == ArcDropSnap([snaps |-> snaps,
                                 stores |-> GetValueRefStores(stores, h[1].store)], id)
       IN  /\ handles' = handles (+) SetToBag({h[1]})
           /\ snaps' = after.snaps
           /\ stores' = after.stores
    /\ ptrs' = [ptrs EXCEPT ![id] = @ - 1]
    /\ UNCHANGED <<datastore, holder, owned, pc, arg, local, ret>>
    /\ UNCHANGED histVars /\ UNCHANGED buildVars

\* get_value_ref / get_handle on the map the caller owns by value
OwnedGetValueRef(k) ==
    /\ owned.some /\ CanHoldHandle
    /\ KeepHandle(GetValueRef(owned, stores, k))
    /\ MapContainsKey(owned.index_map, k)
    /\ UNCHANGED <<snaps, datastore, holder, owned, ptrs, pc, arg, local, ret>>
    /\ UNCHANGED histVars /\ UNCHANGED buildVars

\* drop(map) for the map the caller owns by value
DropOwned ==
    /\ owned.some
    /\ owned' = NoOwned
    /\ stores' = ArcDropStore(stores, owned.store)
    /\ UNCHANGED <<snaps, datastore, holder, ptrs, handles, pc, arg, local, ret>>
    /\ UNCHANGED histVars /\ UNCHANGED buildVars

\* drop(handle)
DropHandle(h) ==
    /\ BagIn(h, handles)
    /\ handles' = handles (-) SetToBag({h})
    /\ stores' = ArcDropStore(stores, h.store)
    /\ UNCHANGED <<snaps, datastore, holder, owned, ptrs, pc, arg, local, ret>>
    /\ UNCHANGED histVars /\ UNCHANGED buildVars

(***************************************************************************)
(* Consuming the holder.  A call that takes `self` by value can only run   *)
(* while no other call borrows the holder.                                 *)
(***************************************************************************)
Quiescent == \A t \in Threads : pc[t] = "idle"

\* With the holder gone there is no replacement order left to observe: the
\* history of the holder's calls ends with it.
HolderGone ==
    /\ ret' = ret
    /\ built' = built
    /\ installed' = <<>>
    /\ startPos' = startPos
    /\ lastSeen' = [t \in Threads |-> 0]

ArcIntoInnerIsSome_Always(sn, id) == TRUE

\* Arc::into_inner: the value if this was the last owner, nothing otherwise.
ArcIntoInnerIsSome(sn, id) == sn[id].strong = 1

\* SwapMap::into_snapshot: self.datastore.into_inner().pipe(Arc::into_inner)
IntoSnapshot ==
    /\ holder = "live" /\ Quiescent
    /\ IF ArcIntoInnerIsSome(snaps, datastore)
       THEN /\ owned' = [some |-> TRUE, index_map |-> snaps[datastore].index_map,
                         store |-> snaps[datastore].store]
            /\ snaps' = [snaps EXCEPT ![datastore] = FreedSnap]
            /\ stores' = stores
            /\ holder' = "into_snapshot_some"
       ELSE /\ owned' = owned
            /\ LET after == ArcDropSnap(Heap, datastore)
               IN  /\ snaps' = after.snaps
                   /\ stores' = after.stores
            /\ holder' = "into_snapshot_none"
    /\ datastore' = NoSnap
    /\ HolderGone
    /\ UNCHANGED <<ptrs, handles, pc, arg, local>>
    /\ UNCHANGED buildVars

\* SwapMap::try_into_snapshot: self.datastore.into_inner().into(), which is
\* Arc::try_unwrap: Ok(map) becomes Value::Owned, Err(arc) Value::Shared.
TryIntoSnapshot ==
    /\ holder = "live" /\ Quiescent /\ ~owned.some
    /\ IF ArcTryUnwrapIsOk(snaps, datastore)
       THEN /\ owned' = InnerMap(snaps, datastore)
            /\ snaps' = [snaps EXCEPT ![datastore] = FreedSnap]
            /\ ptrs' = ptrs
            /\ holder' = "try_into_snapshot_owned"
       ELSE /\ owned' = owned
            /\ snaps' = snaps
            /\ ptrs' = [ptrs EXCEPT ![datastore] = @ + 1]
            /\ holder' = "try_into_snapshot_shared"
    /\ stores' = stores
    /\ datastore' = NoSnap
    /\ HolderGone
    /\ UNCHANGED <<handles, pc, arg, local>>
    /\ UNCHANGED buildVars

\* SwapMap::into_snapshot_or_clone:
\* self.datastore.into_inner().pipe(Arc::unwrap_or_clone).  The derived
\* FrozenMap::clone copies the index map and clones the Arc of the store.
IntoSnapshotOrClone ==
    /\ holder = "live" /\ Quiescent /\ ~owned.some
    /\ owned' = InnerMap(snaps, datastore)
    /\ IF ArcTryUnwrapIsOk(snaps, datastore)
       THEN /\ snaps' = [snaps EXCEPT ![datastore] = FreedSnap]
            /\ stores' = stores
       ELSE LET after == ArcDropSnap(
                    [snaps |-> snaps,
                     stores |-> ArcCloneStore(stores, snaps[datastore].store)],
                    datastore)
            IN  /\ snaps' = after.snaps
                /\ stores' = after.stores
    /\ holder' = "into_snapshot_or_clone"
    /\ datastore' = NoSnap
    /\ HolderGone
    /\ UNCHANGED <<ptrs, handles, pc, arg, local>>
    /\ UNCHANGED buildVars

\* drop(swap_map)
DropHolder ==
    /\ holder = "live" /\ Quiescent
    /\ LET after == ArcDropSnap(Heap, datastore)
       IN  /\ snaps' = after.snaps
           /\ stores' = after.stores
    /\ holder' = "dropped"
    /\ datastore' = NoSnap
    /\ HolderGone
    /\ UNCHANGED <<owned, ptrs, handles, pc, arg, local>>
    /\ UNCHANGED buildVars

Next ==
    \/ \E t \in Threads, b \in Batches : StoreBuild(t, b)
    \/ \E t \in Threads : StoreReplace(t)
    \/ \E t \in Threads, b \in Batches : SwapBuild(t, b)
    \/ \E t \in Threads : SwapReplace(t)
    \/ \E t \in Threads : LoadCall(t)
    \/ \E t \in Threads : LoadStep(t)
    \/ \E t \in Threads : SnapshotRead(t)
    \/ \E t \in Threads, k \in Keys : GetRead(t, k)
    \/ \E t \in Threads : PlainRead(t)
    \/ \E id \in SnapIds : DropPtr(id)
    \/ \E id \in SnapIds, k \in Keys : PtrGetValueRef(id, k)
    \/ \E k \in Keys : OwnedGetValueRef(k)
    \/ DropOwned
    \/ \E h \in LiveHandles : DropHandle(h)
    \/ IntoSnapshot
    \/ TryIntoSnapshot
    \/ IntoSnapshotOrClone
    \/ DropHolder

Spec == Init /\ [][Next]_vars

(***************************************************************************)
(* The constructors on their own: every pair sequence of length at most    *)
(* MaxLen is handed to FrozenMap::from_pairs, ShareMap::try_from_iter and  *)
(* SwapMap::from_pairs.                                                    *)
(***************************************************************************)
InitBuild ==
    /\ InitHolder(BatchAB)
    /\ bIn \in SeqsUpTo(MaxLen)
    /\ bOut = NoneBuilt

Construct(c, r) ==
    /\ c \notin DOMAIN bOut
    /\ bOut' = [x \in (DOMAIN bOut) \cup {c} |-> IF x = c THEN r ELSE bOut[x]]
    /\ UNCHANGED <<snaps, stores, datastore, holder, owned, ptrs, handles, pc, arg,
                   local, ret, bIn>>
    /\ UNCHANGED histVars

CallFromPairs == Construct("FrozenMap::from_pairs", FromPairs(bIn))
CallTryFromIter == Construct("ShareMap::try_from_iter", TryFromIter(bIn))
CallSwapMapFromPairs == Construct("SwapMap::from_pairs", SwapMapFromPairs(bIn))

NextBuild ==
    \/ CallFromPairs
    \/ CallTryFromIter
    \/ CallSwapMapFromPairs

SpecBuild == InitBuild /\ [][NextBuild]_vars

(***************************************************************************)
(* ShareMap::from_iter, the collapsing constructor, on every pair sequence *)
(* of length at most MaxLen.  When keys repeat, the map and the values are *)
(* rebuilt in the order index_map.into_iter() yields the entries, which is *)
(* up to the map: every order is tried.                                    *)
(***************************************************************************)
\* The orders in which a map with the keys S can yield its entries.
IterOrders(S) ==
    {o \in [1..Cardinality(S) -> S] : \A i, j \in DOMAIN o : o[i] = o[j] => i = j}

Panicked == [ok |-> FALSE, index_map |-> EmptyMap, store |-> <<>>]

\* The rebuild after duplicates: entry number i of the old map, (key,
\* old_index), becomes ((key, i), values[old_index].take().unwrap()).
\* taken is the set of slots already emptied; unwrap of an emptied slot panics.
RECURSIVE FromIterRebuild_KeepOldIndex(_, _, _, _, _, _, _)
FromIterRebuild_KeepOldIndex(values, index_map, order, i, taken, key_index_pairs, new_values) ==
    IF i > Len(order)
    THEN [panic |-> FALSE, key_index_pairs |-> key_index_pairs, values |-> new_values]
    ELSE LET key == order[i]
             old_index == index_map[key]
         IN  IF old_index \in taken \/ old_index >= Len(values)
             THEN [panic |-> TRUE, key_index_pairs |-> <<>>, values |-> <<>>]
             ELSE FromIterRebuild_KeepOldIndex(values, index_map, order, i + 1,
                                               taken \cup {old_index},
                                               Append(key_index_pairs, <<key, old_index>>),
                                               Append(new_values, values[old_index + 1]))

RECURSIVE FromIterRebuild(_, _, _, _, _, _, _)
FromIterRebuild(values, index_map, order, i, taken, key_index_pairs, new_values) ==
    IF i > Len(order)
    THEN [panic |-> FALSE, key_index_pairs |-> key_index_pairs, values |-> new_values]
    ELSE LET key == order[i]
             old_index == index_map[key]
         IN  IF old_index \in taken \/ old_index >= Len(values)
             THEN [panic |-> TRUE, key_index_pairs |-> <<>>, values |-> <<>>]
             ELSE FromIterRebuild(values, index_map, order, i + 1,
                                  taken \cup {old_index},
                                  Append(key_index_pairs, <<key, i - 1>>),
                                  Append(new_values, values[old_index + 1]))

FromIter_NoRebuild(pairs, order) ==
    LET values == [i \in 1..Len(pairs) |-> pairs[i].v]
        key_index_pairs == [i \in 1..Len(pairs) |-> <<pairs[i].k, i - 1>>]
    IN  [ok |-> TRUE, index_map |-> MapFromIter(key_index_pairs), store |-> values]

\* ShareMap::from_iter(pairs), with order the iteration order of the first
\* index map.
FromIter(pairs, order) ==
    LET values == [i \in 1..Len(pairs) |-> pairs[i].v]
        key_index_pairs == [i \in 1..Len(pairs) |-> <<pairs[i].k, i - 1>>]
        index_map == MapFromIter(key_index_pairs)
    IN  IF MapLen(index_map) = Len(values)
        THEN [ok |-> TRUE, index_map |-> index_map, store |-> values]
        ELSE IF MapLen(index_map) > Len(values)
        THEN Panicked
        ELSE LET rebuilt == FromIterRebuild(values, index_map, order, 1, {}, <<>>, <<>>)
                 new_map == MapFromIter(rebuilt.key_index_pairs)
             IN  IF rebuilt.panic
                    \/ ~(MapLen(new_map) = Len(rebuilt.values)
                         /\ Len(rebuilt.values) = MapLen(index_map))
                 THEN Panicked
                 ELSE [ok |-> TRUE, index_map |-> new_map, store |-> rebuilt.values]

CallFromIter(order) == Construct("ShareMap::from_iter", FromIter(bIn, order))

NextFromIter ==
    \E order \in IterOrders({bIn[i].k : i \in 1..Len(bIn)}) : CallFromIter(order)

SpecFromIter == InitBuild /\ [][NextFromIter]_vars

(***************************************************************************)
(* Handle and ValueRef on their own: two maps are built independently, two *)
(* handles are looked up in them and compared.  A handle is (store, index) *)
(* with store an Arc<[T]>; bIn holds the value type and the two maps, bOut *)
(* the two handles and what each comparison returned.                      *)
(***************************************************************************)
BatchOnes == <<Pair("a", 1), Pair("b", 1)>>

\* T = i32, or the zero-sized T = () whose one value is written 1.
ValueTypes == {"i32", "unit"}
SizeOf(T) == IF T = "unit" THEN 0 ELSE 4
BatchesOf(T) == IF T = "unit" THEN {BatchOnes} ELSE {BatchAB, BatchAC, BatchOnes}

\* The address of the first slot of the Arc<[T]> allocation sid.  Every
\* allocation holds its two counters, so two live stores never share an
\* address, whatever the size of T.
DataAddr(sid) == sid * 64

\* &raw const **h: the address of slot h.index of the store of h.
AddrOf(h, T) == DataAddr(h.store) + h.index * SizeOf(T)

HandleRefEq_ByValue(this, other, T) == Deref(this, stores) = Deref(other, stores)

\* Handle::ref_eq: std::ptr::eq(&raw const **this, &raw const **other)
HandleRefEq(this, other, T) == AddrOf(this, T) = AddrOf(other, T)

\* Handle::ref_ne: !std::ptr::eq(&raw const **this, &raw const **other)
HandleRefNe(this, other, T) == ~(AddrOf(this, T) = AddrOf(other, T))

\* Handle::eq: Handle::ref_eq(this, other) || **this == **other
HandleEq(this, other, T) ==
    HandleRefEq(this, other, T) \/ Deref(this, stores) = Deref(other, stores)

HandleNe_Or(this, other, T) ==
    HandleRefNe(this, other, T) \/ Deref(this, stores) # Deref(other, stores)

\* Handle::ne: Handle::ref_ne(this, other) && **this != **other
HandleNe(this, other, T) ==
    HandleRefNe(this, other, T) /\ Deref(this, stores) # Deref(other, stores)

\* PartialEq for Handle / ValueRef: **self == **other
DerefEq(this, other) == Deref(this, stores) = Deref(other, stores)

\* Ord for Handle / ValueRef: (**self).cmp(&**other)
DerefCmp(this, other) ==
    IF Deref(this, stores) < Deref(other, stores) THEN "Less"
    ELSE IF Deref(this, stores) = Deref(other, stores) THEN "Equal"
    ELSE "Greater"

\* ValueRef::ref_eq: Arc::ptr_eq(&this.store, &other.store) && this.index == other.index
ValueRefRefEq(this, other) ==
    DataAddr(this.store) = DataAddr(other.store) /\ this.index = other.index

\* ValueRef::ref_ne: !Arc::ptr_eq(&this.store, &other.store) || this.index != other.index
ValueRefRefNe(this, other) ==
    ~(DataAddr(this.store) = DataAddr(other.store)) \/ this.index # other.index

\* ValueRef::eq: ValueRef::ref_eq(this, other) || **this == **other
ValueRefEq(this, other) ==
    ValueRefRefEq(this, other) \/ Deref(this, stores) = Deref(other, stores)

\* ValueRef::ne: ValueRef::ref_ne(this, other) || **this != **other
ValueRefNe(this, other) ==
    ValueRefRefNe(this, other) \/ Deref(this, stores) # Deref(other, stores)

\* No handle pair compared yet.
NoCompare == [kind |-> "none"]

\* Two maps built by try_from_iter / from_pairs from p1 and p2, each the one
\* owner of its value store.
InitHandle ==
    /\ \E T \in ValueTypes : \E p1, p2 \in BatchesOf(T) :
          /\ bIn = [T |-> T, pairs |-> <<p1, p2>>,
                    maps |-> <<[TryFromIter(p1) EXCEPT !.store = 1],
                               [TryFromIter(p2) EXCEPT !.store = 2]>>]
          /\ stores = [i \in SnapIds |->
                         IF i = 1 THEN NewStore(TryFromIter(p1))
                         ELSE IF i = 2 THEN NewStore(TryFromIter(p2))
                         ELSE FreedStore]
    /\ bOut = NoCompare
    /\ snaps = [i \in SnapIds |-> FreedSnap]
    /\ datastore = NoSnap
    /\ holder = "none"
    /\ owned = NoOwned
    /\ ptrs = [i \in SnapIds |-> 0]
    /\ handles = EmptyBag
    /\ pc = [t \in Threads |-> "idle"]
    /\ arg = [t \in Threads |-> <<>>]
    /\ local = [t \in Threads |-> NoSnap]
    /\ ret = "Ok"
    /\ built = 2
    /\ installed = <<>>
    /\ startPos = [t \in Threads |-> 0]
    /\ lastSeen = [t \in Threads |-> 0]

\* ShareMap::get_handle(key) / FrozenMap::get_value_ref(key) on map number m:
\* the looked-up handle, which owns a share of the map's store.
GetHandle(m, k) == GetValueRef(bIn.maps[m], stores, k)[1]

\* The store heap while the two handles this and other are held.
HeldStores(this, other) ==
    GetValueRefStores(GetValueRefStores(stores, this.store), other.store)

\* let this = map_m.get_handle(k); let other = map_n.get_handle(j);
\* then every Handle comparison of the two; both handles are dropped after.
CompareHandles(m, k, n, j) ==
    /\ MapContainsKey(bIn.maps[m].index_map, k)
    /\ MapContainsKey(bIn.maps[n].index_map, j)
    /\ LET this == GetHandle(m, k)
           other == GetHandle(n, j)
       IN  bOut' = [kind |-> "Handle", this |-> this, other |-> other,
                    keys |-> <<k, j>>,
                    alive |-> \A h \in {this, other} :
                                 HeldStores(this, other)[h.store].strong >= 2,
                    ref_eq |-> HandleRefEq(this, other, bIn.T),
                    ref_ne |-> HandleRefNe(this, other, bIn.T),
                    eq |-> HandleEq(this, other, bIn.T),
                    ne |-> HandleNe(this, other, bIn.T),
                    partial_eq |-> DerefEq(this, other),
                    cmp |-> DerefCmp(this, other)]
    /\ UNCHANGED <<snaps, stores, datastore, holder, owned, ptrs, handles, pc, arg,
                   local, ret, bIn>>
    /\ UNCHANGED histVars

\* The same with FrozenMap::get_value_ref and the ValueRef comparisons.
CompareValueRefs(m, k, n, j) ==
    /\ MapContainsKey(bIn.maps[m].index_map, k)
    /\ MapContainsKey(bIn.maps[n].index_map, j)
    /\ LET this == GetHandle(m, k)
           other == GetHandle(n, j)
       IN  bOut' = [kind |-> "ValueRef", this |-> this, other |-> other,
                    keys |-> <<k, j>>,
                    alive |-> \A h \in {this, other} :
                                 HeldStores(this, other)[h.store].strong >= 2,
                    ref_eq |-> ValueRefRefEq(this, other),
                    ref_ne |-> ValueRefRefNe(this, other),
                    eq |-> ValueRefEq(this, other),
                    ne |-> ValueRefNe(this, other),
                    partial_eq |-> DerefEq(this, other),
                    cmp |-> DerefCmp(this, other)]
    /\ UNCHANGED <<snaps, stores, datastore, holder, owned, ptrs, handles, pc, arg,
                   local, ret, bIn>>
    /\ UNCHANGED histVars

NextHandle ==
    \/ \E m, n \in {1, 2}, k, j \in Keys : CompareHandles(m, k, n, j)
    \/ \E m, n \in {1, 2}, k, j \in Keys : CompareValueRefs(m, k, n, j)

SpecHandle == InitHandle /\ [][NextHandle]_vars

(***************************************************************************)
(* values and into_values of a map built by a duplicate-checked            *)
(* constructor, on every pair sequence of length at most MaxLen.           *)
(***************************************************************************)
\* std::slice::Iter: the elements of the slice from slot 0 upwards.
SliceIter(values) == [i \in 1..Len(values) |-> SliceIndex(values, i - 1)]

Values_Reversed(m) == [i \in 1..Len(m.store) |-> m.store[Len(m.store) + 1 - i]]

\* ShareMap::values, FrozenMap::values: self.values.iter(), collected.
Values(m) == SliceIter(m.store)

\* ShareMap::into_values, FrozenMap::into_values: the value store itself.
IntoValues(m) == m.store

NotBuilt == [ok |-> FALSE, out |-> <<>>]

\* built.map(f): f applied to the map when the constructor returned Ok.
OnBuilt(built_map, out) == IF built_map.ok THEN [ok |-> TRUE, out |-> out] ELSE NotBuilt

CallShareMapValues ==
    LET m == TryFromIter(bIn) IN Construct("ShareMap::values", OnBuilt(m, Values(m)))
CallShareMapIntoValues ==
    LET m == TryFromIter(bIn) IN Construct("ShareMap::into_values", OnBuilt(m, IntoValues(m)))
CallFrozenMapValues ==
    LET m == FromPairs(bIn) IN Construct("FrozenMap::values", OnBuilt(m, Values(m)))
CallFrozenMapIntoValues ==
    LET m == FromPairs(bIn) IN Construct("FrozenMap::into_values", OnBuilt(m, IntoValues(m)))

NextValues ==
    \/ CallShareMapValues
    \/ CallShareMapIntoValues
    \/ CallFrozenMapValues
    \/ CallFrozenMapIntoValues

SpecValues == InitBuild /\ [][NextValues]_vars

(***************************************************************************)
(* Iteration: ShareMap::iter (Iter) and FrozenMap::into_iter (IntoIter)    *)
(* walk the index map's own iterator and look each slot up in the store.   *)
(* The order in which the index map yields its entries is up to the map    *)
(* (sorted for a BTreeMap, unspecified for a HashMap) and stays the same   *)
(* while the map is not modified: the input fixes one order per map, and   *)
(* every order is tried.                                                   *)
(***************************************************************************)
MaxNone == 2        \* calls of next() made after the last item

\* index_map.iter() / index_map.into_iter(): the entries yet to come.
MapIter(index_map, order) ==
    [i \in 1..Len(order) |-> <<order[i], index_map[order[i]]>>]

SliceGet_NextSlot(values, index) ==
    IF index >= 0 /\ index < Len(values)
    THEN Some(values[((index + 1) % Len(values)) + 1]) ELSE None

\* self.store.get(index)
SliceGet(values, index) ==
    IF index >= 0 /\ index < Len(values) THEN Some(values[index + 1]) ELSE None

\* Iter::new, IntoIter::new
IterNew(index_iter, store) == [index_iter |-> index_iter, store |-> store]

\* next(): index_iter.next().and_then(|(key, index)| store.get(index).map(..))
IterNextItem(it) ==
    IF it.index_iter = <<>> THEN None
    ELSE LET entry == Head(it.index_iter)
             val == SliceGet(it.store, entry[2])
         IN  IF val = None THEN None ELSE Some(<<entry[1], val[1]>>)

\* what next() leaves of the iterator: index_iter has moved on by one entry
IterAdvance(it) ==
    [it EXCEPT !.index_iter = IF it.index_iter = <<>> THEN <<>> ELSE Tail(it.index_iter)]

IterLen_Total(it) == Len(it.store)

\* len(), size_hint(): those of index_iter
IterLen(it) == Len(it.index_iter)

NoIter == [kind |-> "none"]

InitIter ==
    /\ InitHolder(BatchAB)
    /\ bIn \in UNION {[pairs : {p}, order : IterOrders({p[i].k : i \in 1..Len(p)})] :
                         p \in SeqsUpTo(MaxLen)}
    /\ bOut = NoIter

\* An iterator it of the given kind has just been made; before tells how
\* many calls of next() an earlier iterator over the same map had served.
Iterating(kind, it, before) ==
    /\ bOut' = [kind |-> kind, it |-> it, items |-> <<>>, lens |-> <<>>,
                before |-> before]
    /\ UNCHANGED <<snaps, stores, datastore, holder, owned, ptrs, handles, pc, arg,
                   local, ret, bIn>>
    /\ UNCHANGED histVars

\* map.iter() on the map try_from_iter built; a second call starts afresh.
CallIter ==
    LET m == TryFromIter(bIn.pairs)
    IN  /\ m.ok
        /\ \/ bOut.kind = "none"
           \/ bOut.kind = "Iter" /\ bOut.before = None
        /\ Iterating("Iter", IterNew(MapIter(m.index_map, bIn.order), m.store),
                     IF bOut.kind = "none" THEN None ELSE Some(Len(bOut.items)))

\* map.into_iter() on the map from_pairs built; the map is consumed.
CallIntoIter ==
    LET m == FromPairs(bIn.pairs)
    IN  /\ m.ok
        /\ bOut.kind = "none"
        /\ Iterating("IntoIter", IterNew(MapIter(m.index_map, bIn.order), m.store), None)

\* len() followed by next() on the iterator at hand
CallNext ==
    /\ bOut.kind # "none"
    /\ Len(bOut.items) < Len(bIn.order) + MaxNone
    /\ bOut' = [bOut EXCEPT !.it = IterAdvance(bOut.it),
                            !.items = Append(bOut.items, IterNextItem(bOut.it)),
                            !.lens = Append(bOut.lens, IterLen(bOut.it))]
    /\ UNCHANGED <<snaps, stores, datastore, holder, owned, ptrs, handles, pc, arg,
                   local, ret, bIn>>
    /\ UNCHANGED histVars

NextIter ==
    \/ CallIter
    \/ CallIntoIter
    \/ CallNext

SpecIter == InitIter /\ [][NextIter]_vars

(***************************************************************************)
(* Deserialization.  The input is the stream of (key, value) entries of a  *)
(* serialized map, in which a key may occur more than once.                *)
(***************************************************************************)
\* HashMap::deserialize (serde): every entry is inserted, a later entry of
\* the same key replaces the earlier one; duplicates are no error.
HashMapDeserialize(stream) ==
    MapFromIter([i \in 1..Len(stream) |-> <<stream[i].k, stream[i].v>>])

\* HashMap::into_iter: the (key, value) entries in the map's iteration order
HashMapIntoIter(hash_map, order) ==
    [i \in 1..Len(order) |-> Pair(order[i], hash_map[order[i]])]

\* From<HashMap<K, V>>: Self::try_from_iter(value).expect(..)
ShareMapFromHashMap(hash_map, order) ==
    LET built_map == TryFromIter(HashMapIntoIter(hash_map, order))
    IN  IF built_map.ok THEN built_map ELSE Panicked

\* <ShareMap as Deserialize>::deserialize:
\* HashMap::deserialize(deserializer).map(ShareMap::from)
ShareMapDeserialize(stream, order) ==
    ShareMapFromHashMap(HashMapDeserialize(stream), order)

\* map_err(serde::de::Error::custom): a data error, no map
DataError == [ok |-> FALSE, index_map |-> EmptyMap, store |-> <<>>, err |-> "data"]

EnsureUniqueDeserialize_Collapsing(stream) ==
    ShareMapDeserialize(stream,
                        CHOOSE o \in IterOrders({stream[i].k : i \in 1..Len(stream)}) : TRUE)

\* ensure_unqiue::deserialize, ShareMapVisitor::visit_map: push every entry,
\* then ShareMap::try_from_iter(entries).map_err(serde::de::Error::custom)
EnsureUniqueDeserialize(stream) ==
    LET entries == [i \in 1..Len(stream) |-> stream[i]]
        built_map == TryFromIter(entries)
    IN  IF built_map.ok THEN built_map ELSE DataError

CallShareMapDeserialize(order) ==
    Construct("ShareMap::deserialize", ShareMapDeserialize(bIn, order))
CallEnsureUniqueDeserialize ==
    Construct("ensure_unqiue::deserialize", EnsureUniqueDeserialize(bIn))

NextSerde ==
    \/ \E order \in IterOrders({bIn[i].k : i \in 1..Len(bIn)}) :
          CallShareMapDeserialize(order)
    \/ CallEnsureUniqueDeserialize

SpecSerde == InitBuild /\ [][NextSerde]_vars

(***************************************************************************)
(* Conversions from and to the std maps.  A std map is a function from its *)
(* keys to its values; a HashMap yields its entries in any order, a        *)
(* BTreeMap in the order of its keys.                                      *)
(***************************************************************************)
\* Ord for the keys: "a" < "b" < "c"
KeyRank(k) == CASE k = "a" -> 1 [] k = "b" -> 2 [] OTHER -> 3

\* BTreeMap iteration: ascending keys
SortedOrder(S) ==
    CHOOSE o \in IterOrders(S) : \A i, j \in DOMAIN o : i < j => KeyRank(o[i]) < KeyRank(o[j])

\* iterator.collect::<Vec<_>>(): the items next() yields up to the first None
RECURSIVE IterCollect(_)
IterCollect(it) ==
    LET item == IterNextItem(it)
    IN  IF item = None THEN <<>> ELSE <<item[1]>> \o IterCollect(IterAdvance(it))

\* From<ShareMap> for HashMap / BTreeMap:
\* value.into_iter().map(|(k, v)| (k.clone(), v.clone())).collect()
ShareMapIntoStdMap(m, order) ==
    MapFromIter(IterCollect(IterNew(MapIter(m.index_map, order), m.store)))

\* From<BTreeMap<K, V>>: Self::try_from_iter(value).expect(..)
ShareMapFromBTreeMap(btree_map) ==
    ShareMapFromHashMap(btree_map, SortedOrder(DOMAIN btree_map))

StdMaps == UNION {[S -> Vals] : S \in SUBSET Keys}

InitRoundTrip ==
    /\ InitHolder(BatchAB)
    /\ bIn \in StdMaps
    /\ bOut = NoneBuilt

\* ShareMap::from(std_map), then std_map::from(share_map); share_order is the
\* iteration order of the ShareMap's index map.
RoundTrip(c, share_map, share_order) ==
    Construct(c, [share_map |-> share_map,
                  out |-> ShareMapIntoStdMap(share_map, share_order)])

HashMapRoundTrip(order, share_order) ==
    RoundTrip("HashMap", ShareMapFromHashMap(bIn, order), share_order)
BTreeMapRoundTrip(share_order) ==
    RoundTrip("BTreeMap", ShareMapFromBTreeMap(bIn), share_order)

NextRoundTrip ==
    \/ \E order, share_order \in IterOrders(DOMAIN bIn) : HashMapRoundTrip(order, share_order)
    \/ \E share_order \in IterOrders(DOMAIN bIn) : BTreeMapRoundTrip(share_order)

SpecRoundTrip == InitRoundTrip /\ [][NextRoundTrip]_vars

(***************************************************************************)
(* PartialEq for ShareMap, on two maps built from every two pair sequences *)
(* of length at most MaxEqLen by try_from_iter, from_iter or default.      *)
(***************************************************************************)
MaxEqLen == 2       \* length of the pair sequences behind the two maps compared

\* Default for ShareMap: Map::default() and an empty store
ShareMapDefault == [ok |-> TRUE, index_map |-> EmptyMap, store |-> <<>>]

ShareMapEq_NoLenCheck(this, other, order) ==
    \A i \in 1..Len(order) :
       LET got == MapValueGet(other, order[i])
       IN  got # None /\ SliceIndex(this.store, this.index_map[order[i]]) = got[1]

\* eq: false when the stores differ in length; otherwise every (key, value)
\* self.iter() yields must be found, with an equal value, by other.get(key).
ShareMapEq(this, other, order) ==
    IF Len(this.store) # Len(other.store) THEN FALSE
    ELSE LET items == IterCollect(IterNew(MapIter(this.index_map, order), this.store))
         IN  \A i \in 1..Len(items) :
                LET got == MapValueGet(other, items[i][1])
                IN  got # None /\ items[i][2] = got[1]

ShareMapConstructors == {"ShareMap::try_from_iter", "ShareMap::from_iter", "ShareMap::default"}

\* The maps constructor c can make of the pairs: one per iteration order of
\* the index map for from_iter, none when try_from_iter fails; default takes
\* no pairs.
BuiltBy(c, pairs) ==
    CASE c = "ShareMap::try_from_iter" -> {TryFromIter(pairs)} \ {ErrDuplicateKey}
      [] c = "ShareMap::from_iter" ->
            {FromIter(pairs, o) : o \in IterOrders({pairs[i].k : i \in 1..Len(pairs)})}
      [] OTHER -> {ShareMapDefault}

InitEq ==
    /\ InitHolder(BatchAB)
    /\ bIn \in [left : SeqsUpTo(MaxEqLen), right : SeqsUpTo(MaxEqLen)]
    /\ bOut = NoCompare

\* left == right and right == left, for the maps cl and cr made
CompareMaps(cl, cr) ==
    /\ bOut = NoCompare
    /\ \E left \in BuiltBy(cl, bIn.left), right \in BuiltBy(cr, bIn.right) :
       \E lorder \in IterOrders(DOMAIN left.index_map),
          rorder \in IterOrders(DOMAIN right.index_map) :
          bOut' = [kind |-> "maps", by |-> <<cl, cr>>, left |-> left, right |-> right,
                   eq |-> ShareMapEq(left, right, lorder),
                   eq_rev |-> ShareMapEq(right, left, rorder)]
    /\ UNCHANGED <<snaps, stores, datastore, holder, owned, ptrs, handles, pc, arg,
                   local, ret, bIn>>
    /\ UNCHANGED histVars

NextEq == \E cl, cr \in ShareMapConstructors : CompareMaps(cl, cr)

SpecEq == InitEq /\ [][NextEq]_vars

(***************************************************************************)
(* Cloning handles.  One map, owned by the caller, built by try_from_iter  *)
(* / from_pairs of a batch; the caller takes handles from it, clones them, *)
(* and drops handles and map in any order.                                 *)
(***************************************************************************)
MaxClones == 3      \* handles alive at once

\* #[derive(Clone)] for Handle, ValueRef::clone:
\* Self::new(self.store.clone(), self.index)
HandleClone(h) == ValueRefNew(h.store, h.index, h.orig)

HandleCloneStores_NoClone(st, h) == st

\* the store heap after the clone took its share: self.store.clone()
HandleCloneStores(st, h) == ArcCloneStore(st, h.store)

InitClone ==
    /\ \E T \in ValueTypes : \E p \in BatchesOf(T) :
          /\ bIn = [T |-> T, pairs |-> p]
          /\ owned = [some |-> TRUE, index_map |-> TryFromIter(p).index_map, store |-> 1]
          /\ stores = [i \in SnapIds |->
                         IF i = 1 THEN NewStore(TryFromIter(p)) ELSE FreedStore]
    /\ bOut = NoCompare
    /\ snaps = [i \in SnapIds |-> FreedSnap]
    /\ datastore = NoSnap
    /\ holder = "none"
    /\ ptrs = [i \in SnapIds |-> 0]
    /\ handles = EmptyBag
    /\ pc = [t \in Threads |-> "idle"]
    /\ arg = [t \in Threads |-> <<>>]
    /\ local = [t \in Threads |-> NoSnap]
    /\ ret = "Ok"
    /\ built = 1
    /\ installed = <<>>
    /\ startPos = [t \in Threads |-> 0]
    /\ lastSeen = [t \in Threads |-> 0]

\* map.get_handle(key) / map.get_value_ref(key) on the caller's map
TakeHandle(k) ==
    /\ owned.some
    /\ BagCardinality(handles) < MaxClones
    /\ MapContainsKey(owned.index_map, k)
    /\ KeepHandle(GetValueRef(owned, stores, k))
    /\ UNCHANGED <<snaps, datastore, holder, owned, ptrs, pc, arg, local, ret>>
    /\ UNCHANGED histVars /\ UNCHANGED buildVars

\* let clone = h.clone(); followed by Handle::ref_eq(&clone, &h) and
\* ValueRef::ref_eq(&clone, &h)
CloneHandle(h) ==
    /\ BagIn(h, handles)
    /\ BagCardinality(handles) < MaxClones
    /\ handles' = handles (+) SetToBag({HandleClone(h)})
    /\ stores' = HandleCloneStores(stores, h)
    /\ bOut' = [kind |-> "clone", original |-> h, clone |-> HandleClone(h),
                ref_eq |-> HandleRefEq(HandleClone(h), h, bIn.T),
                value_ref_eq |-> ValueRefRefEq(HandleClone(h), h),
                strong_before |-> stores[h.store].strong,
                strong_after |-> stores'[h.store].strong,
                same_data |-> /\ [i \in SnapIds |-> stores'[i].vals]
                                 = [i \in SnapIds |-> stores[i].vals]
                              /\ [i \in SnapIds |-> stores'[i].alive]
                                 = [i \in SnapIds |-> stores[i].alive]]
    /\ UNCHANGED <<snaps, datastore, holder, owned, ptrs, pc, arg, local, ret, bIn>>
    /\ UNCHANGED histVars

NextClone ==
    \/ \E k \in Keys : TakeHandle(k)
    \/ \E h \in LiveHandles : CloneHandle(h)
    \/ \E h \in LiveHandles : DropHandle(h)
    \/ DropOwned

SpecClone == InitClone /\ [][NextClone]_vars

(***************************************************************************)
(* Every constructor of a map, on every pair sequence of length at most    *)
(* MaxLen: the three duplicate-checked ones, ShareMap::from_iter, the two  *)
(* defaults, and From<HashMap> / From<BTreeMap> on the std map collected   *)
(* from the pairs.                                                         *)
(***************************************************************************)
\* Default for FrozenMap: Map::default() and Arc::new([])
FrozenMapDefault == [ok |-> TRUE, index_map |-> EmptyMap, store |-> <<>>]

\* HashMap::from_iter(pairs) / BTreeMap::from_iter(pairs)
StdMapFromIter(pairs) == MapFromIter([i \in 1..Len(pairs) |-> <<pairs[i].k, pairs[i].v>>])

AllConstructors ==
    {"FrozenMap::from_pairs", "ShareMap::try_from_iter", "ShareMap::from_iter",
     "ShareMap::default", "FrozenMap::default", "From<HashMap>", "From<BTreeMap>"}

\* What constructor c returns for the pairs; order is the iteration order of
\* the map involved (from_iter's first index map, the HashMap converted).
MadeBy(c, pairs, order) ==
    CASE c = "FrozenMap::from_pairs" -> FromPairs(pairs)
      [] c = "ShareMap::try_from_iter" -> TryFromIter(pairs)
      [] c = "ShareMap::from_iter" -> FromIter(pairs, order)
      [] c = "ShareMap::default" -> ShareMapDefault
      [] c = "FrozenMap::default" -> FrozenMapDefault
      [] c = "From<HashMap>" -> ShareMapFromHashMap(StdMapFromIter(pairs), order)
      [] OTHER -> ShareMapFromBTreeMap(StdMapFromIter(pairs))

CallConstructor(c, order) ==
    /\ bOut = NoneBuilt
    /\ bOut' = [x \in {c} |-> MadeBy(c, bIn, order)]
    /\ UNCHANGED <<snaps, stores, datastore, holder, owned, ptrs, handles, pc, arg,
                   local, ret, bIn>>
    /\ UNCHANGED histVars

NextConstructors ==
    \E c \in AllConstructors, order \in IterOrders({bIn[i].k : i \in 1..Len(bIn)}) :
       CallConstructor(c, order)

SpecConstructors == InitBuild /\ [][NextConstructors]_vars

(***************************************************************************)
(* ShareMap::from_iter with the iteration order of its first index map     *)
(* given: the input is a pair sequence and the order in which the map      *)
(* collected from it yields its keys.                                      *)
(***************************************************************************)
CallFromIterInOrder ==
    /\ bOut = NoIter
    /\ bOut' = [kind |-> "from_iter", map |-> FromIter(bIn.pairs, bIn.order)]
    /\ UNCHANGED <<snaps, stores, datastore, holder, owned, ptrs, handles, pc, arg,
                   local, ret, bIn>>
    /\ UNCHANGED histVars

NextRebuild == CallFromIterInOrder

SpecRebuild == InitIter /\ [][NextRebuild]_vars

(***************************************************************************)
(* What the claims speak of.                                               *)
(***************************************************************************)
HasDuplicateKey(b) == \E i, j \in 1..Len(b) : i # j /\ b[i].k = b[j].k
KeysOf(b) == {b[i].k : i \in 1..Len(b)}

\* The key-to-value contents a batch with distinct keys describes.
Expected(b) == [k \in Keys |-> IF k \in KeysOf(b)
                               THEN Some(b[CHOOSE i \in 1..Len(b) : b[i].k = k].v)
                               ELSE None]

\* The answers of the reads on the snapshot at id.
SnapView(sn, st, id) ==
    [get |-> [k \in Keys |-> FrozenGet(sn[id], st, k)],
     contains_key |-> [k \in Keys |-> FrozenContainsKey(sn[id], k)],
     len |-> FrozenLen(sn[id], st),
     is_empty |-> FrozenIsEmpty(sn[id], st)]

\* The answers a batch with distinct keys calls for.
ExpectedView(b) ==
    [get |-> Expected(b),
     contains_key |-> [k \in Keys |-> k \in KeysOf(b)],
     len |-> Len(b),
     is_empty |-> (Len(b) = 0)]

\* The answers of get (dereferenced), contains_key, len and is_empty on the
\* holder, were they asked now.
HolderGet(k) ==
    LET h == GetValueRef(snaps[datastore], stores, k)
    IN  IF h = None THEN None ELSE Some(Deref(h[1], stores))

HolderView ==
    [get |-> [k \in Keys |-> HolderGet(k)],
     contains_key |-> [k \in Keys |-> FrozenContainsKey(snaps[datastore], k)],
     len |-> FrozenLen(snaps[datastore], stores),
     is_empty |-> FrozenIsEmpty(snaps[datastore], stores)]

\* C1: every handle dereferences to the value its key had in the snapshot it
\* was taken from, whatever stores, swaps and drops of the holder and of the
\* snapshot pointers came after.
C1_HandleKeepsValue == \A h \in LiveHandles : Deref(h, stores) = h.orig

\* A handle into the first snapshot, after both later builds replaced it, the
\* holder was dropped and no snapshot is left.
C1_Witness ==
    /\ holder = "dropped"
    /\ built = MaxBuilds + 1
    /\ \A id \in SnapIds : ~snaps[id].alive
    /\ \E h \in LiveHandles : h.store = 1 /\ Deref(h, stores) = h.orig

\* C2: a store or swap of a batch with a duplicate key returns
\* DuplicateKeyError, leaves the holder's pointer in place, hands out no old
\* snapshot, and every read on the holder answers as before.
C2_DuplicateLeavesHolder ==
    [][\A t \in Threads, b \in Batches :
          (HasDuplicateKey(b) /\ (StoreBuild(t, b) \/ SwapBuild(t, b)))
          => /\ ret' = "DuplicateKeyError"
             /\ pc'[t] = "idle"
             /\ datastore' = datastore
             /\ ptrs' = ptrs
             /\ HolderView' = HolderView]_vars

\* A rejected call, with the holder still live after an earlier replacement.
C2_Witness ==
    /\ ret = "DuplicateKeyError"
    /\ holder = "live"
    /\ Len(installed) > 1

\* C3: the replacement step of a swap hands the caller the snapshot that was
\* current before it, which still answers with the old contents, and leaves
\* the holder answering with the contents of the swapped-in batch only.
C3_SwapReturnsPrevious ==
    [][\A t \in Threads :
          (pc[t] = "swap_replace" /\ pc'[t] = "idle")
          => /\ ptrs' = [ptrs EXCEPT ![datastore] = @ + 1]
             /\ SnapView(snaps', stores', datastore) = HolderView
             /\ HolderView' = ExpectedView(arg[t])]_vars

\* A caller holds the snapshot a swap returned, whose contents differ from
\* what the holder now has.
C3_Witness ==
    /\ holder = "live"
    /\ \E id \in SnapIds :
          /\ ptrs[id] > 0 /\ id # datastore /\ PosOf(id) > 0
          /\ SnapView(snaps, stores, id) = ExpectedView(BatchAB)
          /\ HolderView = ExpectedView(BatchAC)

Constructors == {"FrozenMap::from_pairs", "ShareMap::try_from_iter", "SwapMap::from_pairs"}

\* C4: on an input whose keys are all distinct each duplicate-checked
\* constructor succeeds, and the built map has one entry per pair: len is the
\* number of pairs, get gives each pair's value and nothing for other keys,
\* contains_key holds exactly for the input's keys.
C4_DistinctKeysBuild ==
    \A c \in DOMAIN bOut :
       ~HasDuplicateKey(bIn)
       => /\ bOut[c].ok
          /\ MapValueLen(bOut[c]) = Len(bIn)
          /\ \A k \in Keys :
                /\ MapValueGet(bOut[c], k) = Expected(bIn)[k]
                /\ MapValueContainsKey(bOut[c], k) <=> (k \in KeysOf(bIn))

\* All three constructors ran on three pairs with distinct keys and unequal
\* values.
C4_Witness ==
    /\ DOMAIN bOut = Constructors
    /\ Len(bIn) = MaxLen
    /\ ~HasDuplicateKey(bIn)
    /\ bIn[1].v # bIn[2].v
    /\ \A c \in Constructors : bOut[c].ok

\* C5: a duplicate-checked constructor returns DuplicateKeyError exactly when
\* two or more pairs of its input have equal keys.
C5_ErrorIffDuplicate ==
    \A c \in DOMAIN bOut : (~bOut[c].ok) <=> HasDuplicateKey(bIn)

\* All three constructors rejected an input whose first and last pair share
\* a key.
C5_Witness ==
    /\ DOMAIN bOut = Constructors
    /\ Len(bIn) = MaxLen
    /\ bIn[1].k = bIn[MaxLen].k
    /\ bIn[1].k # bIn[2].k
    /\ \A c \in Constructors : ~bOut[c].ok

\* C6: the snapshot a load got is the one current when the load began or one
\* installed later.
C6_LoadSeesCompletedStore ==
    \A t \in Threads : pc[t] = "read" => PosOf(local[t]) >= startPos[t]

\* A load that began after a replacement and ran while another was pending.
C6_Witness ==
    \E t \in Threads :
       /\ pc[t] = "read" /\ startPos[t] = 2 /\ PosOf(local[t]) = 3

\* C7: a load never gets a snapshot older than one the same thread got before.
C7_MonotonicReads ==
    \A t \in Threads : pc[t] = "read" => PosOf(local[t]) >= lastSeen[t]

\* A thread that saw a replaced-in snapshot loads again while a writer is
\* about to replace.
C7_Witness ==
    \E t \in Threads :
       /\ pc[t] = "read" /\ lastSeen[t] >= 2 /\ Replacing # {}

\* C8: the holder's contents change only in the replacement step of a call,
\* and then become exactly the contents of that call's whole batch; so with
\* no call running the holder has the contents of the last replacement.
C8_OneWholeSnapshot ==
    [][holder' = "live"
       => IF \E t \in Threads : t \in Replacing /\ pc'[t] = "idle"
          THEN \E t \in Threads : /\ t \in Replacing /\ pc'[t] = "idle"
                                  /\ HolderView' = ExpectedView(arg[t])
                                  /\ datastore' = local[t]
          ELSE HolderView' = HolderView /\ datastore' = datastore]_vars

\* Two writers were at their replacement at once and both are done: the
\* holder has the batch of the one that replaced last.
C8_Witness ==
    /\ holder = "live" /\ Quiescent
    /\ Len(installed) = 3
    /\ installed[2] > installed[3]

C11_HandleIsNoOwner ==
    [][(/\ holder = "live"
        /\ holder' \in {"into_snapshot_some", "into_snapshot_none",
                        "try_into_snapshot_owned", "try_into_snapshot_shared"}
        /\ ptrs[datastore] = 0
        /\ \E h \in LiveHandles : h.store = snaps[datastore].store)
       => /\ holder' \in {"into_snapshot_some", "try_into_snapshot_owned"}
          /\ owned'.some
          /\ LiveHandles' = LiveHandles
          /\ \A h \in LiveHandles : Deref(h, stores') = h.orig]_vars

\* try_into_snapshot returned Owned while a handle into that snapshot was
\* held; the map and the handle were then dropped in that order, and the
\* handle outlived the map.
C11_Witness ==
    /\ holder = "try_into_snapshot_owned"
    /\ ~owned.some
    /\ TotalPtrs = 0
    /\ \E h \in LiveHandles :
          /\ stores[h.store].alive /\ stores[h.store].strong = 1
          /\ Deref(h, stores) = h.orig

\* The answers of the reads on a FrozenMap the caller has by value.
MapView(m, st) ==
    [get |-> [k \in Keys |-> FrozenGet(m, st, k)],
     contains_key |-> [k \in Keys |-> FrozenContainsKey(m, k)],
     len |-> FrozenLen(m, st),
     is_empty |-> FrozenIsEmpty(m, st)]

\* C12: try_into_snapshot consumes the holder; it returns Owned exactly when
\* no caller holds a pointer to the holder's current snapshot, and Shared
\* (one more caller-held pointer to that snapshot) otherwise; either way the
\* result answers every read as the holder did at the call.
C12_TryIntoSnapshot ==
    [][(holder = "live"
        /\ holder' \in {"try_into_snapshot_owned", "try_into_snapshot_shared"})
       => /\ datastore' = NoSnap
          /\ (holder' = "try_into_snapshot_owned") <=> (ptrs[datastore] = 0)
          /\ IF holder' = "try_into_snapshot_owned"
             THEN /\ owned'.some
                  /\ MapView(owned', stores') = HolderView
                  /\ ptrs' = ptrs
             ELSE /\ owned' = owned
                  /\ ptrs' = [ptrs EXCEPT ![datastore] = @ + 1]
                  /\ snaps'[datastore].alive
                  /\ SnapView(snaps', stores', datastore) = HolderView]_vars

\* try_into_snapshot returned Shared: the caller now holds the pointer it got
\* from snapshot() and the one inside the Value, to a snapshot that replaced
\* the first one.
C12_Witness ==
    /\ holder = "try_into_snapshot_shared"
    /\ \E id \in SnapIds :
          /\ id # 1
          /\ ptrs[id] = 2
          /\ snaps[id].alive /\ snaps[id].strong = 2

\* C13: into_snapshot_or_clone consumes the holder and always returns a map
\* by value that answers every read as the holder did at the call; pointers
\* callers hold to that snapshot stay as they were and their snapshot keeps
\* answering the same.
C13_IntoSnapshotOrClone ==
    [][(holder = "live" /\ holder' = "into_snapshot_or_clone")
       => /\ datastore' = NoSnap
          /\ owned'.some
          /\ MapView(owned', stores') = HolderView
          /\ ptrs' = ptrs
          /\ ptrs[datastore] > 0
             => /\ snaps'[datastore].alive
                /\ SnapView(snaps', stores', datastore) = HolderView]_vars

\* into_snapshot_or_clone returned a clone: the caller holds the map by value
\* and a pointer to the snapshot it was cloned from, both on one value store.
C13_Witness ==
    /\ holder = "into_snapshot_or_clone"
    /\ owned.some
    /\ \E id \in SnapIds :
          /\ ptrs[id] > 0 /\ snaps[id].alive
          /\ snaps[id].store = owned.store
          /\ stores[owned.store].strong = 2
          /\ MapView(owned, stores) = SnapView(snaps, stores, id)

\* C14: a snapshot pointer a caller holds keeps its contents: no step of any
\* store, swap, read, drop or consumption of the holder changes what get,
\* contains_key, len and is_empty answer on it, and a pointer to the first
\* snapshot answers with the first contents ever after.
C14_SnapshotKeepsContents ==
    [][/\ \A id \in SnapIds :
             (ptrs[id] > 0 /\ ptrs'[id] > 0)
             => /\ snaps'[id].alive
                /\ SnapView(snaps', stores', id) = SnapView(snaps, stores, id)
       /\ ptrs'[1] > 0 => SnapView(snaps', stores', 1) = ExpectedView(BatchAB)]_vars

\* A pointer taken from the first snapshot is still held after two
\* replacements and the drop of the holder.
C14_Witness ==
    /\ holder = "dropped"
    /\ built = MaxBuilds + 1
    /\ ptrs[1] > 0
    /\ \A id \in SnapIds \ {1} : ~snaps[id].alive
    /\ SnapView(snaps, stores, 1) = ExpectedView(BatchAB)

\* The load guards that keep snapshot id alive: reads in progress on it.
GuardsOn(id) == {u \in Threads : pc[u] = "read" /\ local[u] = id}

\* What a replacement step does with the holder's share of the old snapshot:
\* swap moves it to the caller, store drops it.
ShareMoves(soleIf) ==
    \A t \in Threads :
       /\ (pc[t] = "swap_replace" /\ pc'[t] = "idle")
          => /\ ptrs' = [ptrs EXCEPT ![datastore] = @ + 1]
             /\ snaps'[datastore].strong = snaps[datastore].strong
             /\ soleIf => ArcTryUnwrapIsOk(snaps', datastore)
       /\ (pc[t] = "store_replace" /\ pc'[t] = "idle")
          => /\ ptrs' = ptrs
             /\ IF snaps[datastore].strong = 1
                THEN ~snaps'[datastore].alive
                ELSE snaps'[datastore].strong = snaps[datastore].strong - 1

\* C15 (as amended): the holder has exactly one share of its current
\* snapshot; a swap moves that share to the caller, so the returned pointer
\* is the only owner of the old snapshot when no caller holds a pointer to it
\* and no read in progress on another thread holds a load guard on it; a
\* store drops the share.
C15_SwapHandsOverShare ==
    [][/\ holder = "live"
          => snaps[datastore].strong
                = 1 + ptrs[datastore] + Cardinality(GuardsOn(datastore))
       /\ ShareMoves(ptrs[datastore] = 0 /\ GuardsOn(datastore) = {})]_vars

\* C15 (as stated): the pointer returned by swap is the only owner of the old
\* snapshot whenever no pointer from snapshot() to it is held.
C15_AsStated ==
    [][ShareMoves(ptrs[datastore] = 0)]_vars

\* The caller holds the pointer a swap returned and is the only owner of the
\* snapshot that was replaced.
C15_Witness ==
    /\ holder = "live"
    /\ \E id \in SnapIds :
          /\ id # datastore /\ PosOf(id) > 0
          /\ ptrs[id] = 1
          /\ snaps[id].alive /\ ArcTryUnwrapIsOk(snaps, id)

\* The two compared handles have one store and one slot number.
SameStoreAndSlot ==
    bOut.this.store = bOut.other.store /\ bOut.this.index = bOut.other.index

\* C16 (as stated): ref_eq of two handles is true exactly when they have the
\* same value store and the same slot number, and ref_ne is its negation,
\* for Handle and for ValueRef and for every value type, the zero-sized one
\* included; so handles for two keys of one map are never ref_eq.
C16_AsStated ==
    bOut.kind \in {"Handle", "ValueRef"}
    => /\ bOut.ref_eq <=> SameStoreAndSlot
       /\ bOut.ref_ne <=> ~bOut.ref_eq
       /\ (bOut.this.store = bOut.other.store /\ bOut.keys[1] # bOut.keys[2])
          => ~bOut.ref_eq

\* C17: handles for one key, taken from two maps built independently from
\* the same pairs, are equal by value (==, Handle::eq, cmp gives Equal, and
\* Handle::ne is false) and not equal by reference (ref_eq false, ref_ne
\* true).
C17_EqualValueOtherMap ==
    (/\ bOut.kind = "Handle"
     /\ bIn.pairs[1] = bIn.pairs[2]
     /\ bOut.this.store # bOut.other.store
     /\ bOut.keys[1] = bOut.keys[2])
    => /\ bOut.alive
       /\ bOut.partial_eq /\ bOut.eq /\ bOut.cmp = "Equal" /\ ~bOut.ne
       /\ ~bOut.ref_eq /\ bOut.ref_ne

\* The handles of key b in two maps both built from BatchAB were compared.
C17_Witness ==
    /\ bOut.kind = "Handle"
    /\ bIn.T = "i32"
    /\ bIn.pairs = <<BatchAB, BatchAB>>
    /\ bOut.this.store = 1 /\ bOut.other.store = 2
    /\ bOut.keys = <<"b", "b">>
    /\ bOut.eq /\ ~bOut.ref_eq

\* C18: Handle::eq of two handles is true exactly when the values they
\* dereference to are equal, in particular when the handles are
\* reference-equal, and Handle::ne is the negation of Handle::eq.
C18_HandleEqIsValueEq ==
    bOut.kind = "Handle"
    => /\ bOut.eq <=> (Deref(bOut.this, stores) = Deref(bOut.other, stores))
       /\ bOut.ref_eq => bOut.eq
       /\ bOut.ne <=> ~bOut.eq

\* Two handles with different stores and equal values were compared:
\* ref_ne holds, eq holds and ne does not.
C18_Witness ==
    /\ bOut.kind = "Handle"
    /\ bIn.T = "i32"
    /\ bIn.pairs = <<BatchAB, BatchAC>>
    /\ bOut.this.store # bOut.other.store
    /\ bOut.keys = <<"a", "c">>
    /\ bOut.ref_ne /\ bOut.eq /\ ~bOut.ne

\* C19 (as stated): ValueRef::ne of two value references is true exactly when
\* the values they dereference to are not equal, so exactly one of
\* ValueRef::eq and ValueRef::ne is true for every pair.
C19_AsStated ==
    bOut.kind = "ValueRef"
    => /\ bOut.ne <=> (Deref(bOut.this, stores) # Deref(bOut.other, stores))
       /\ bOut.eq <=> ~bOut.ne

\* The value of the last pair of b that carries key k, if any.
LastValue(b, k) ==
    LET at == {i \in 1..Len(b) : b[i].k = k}
    IN  IF at = {} THEN None
        ELSE Some(b[CHOOSE i \in at : \A j \in at : j <= i].v)

\* C20: ShareMap::from_iter never fails; the map it builds has one entry per
\* distinct key of the input, and each key maps to the value of the last
\* pair that carries it (so a key that occurs once keeps its value).
C20_FromIterLastWins ==
    "ShareMap::from_iter" \in DOMAIN bOut
    => LET m == bOut["ShareMap::from_iter"]
       IN  /\ m.ok
           /\ MapValueLen(m) = Cardinality(KeysOf(bIn))
           /\ \A k \in Keys :
                 /\ MapValueGet(m, k) = LastValue(bIn, k)
                 /\ MapValueContainsKey(m, k) <=> (k \in KeysOf(bIn))

\* from_iter collapsed three pairs with a repeated key whose two values
\* differ, around a key that occurs once; the rebuilt store holds the last
\* value of the repeated key and then the value of the other key.
C20_Witness ==
    /\ "ShareMap::from_iter" \in DOMAIN bOut
    /\ Len(bIn) = 3
    /\ bIn[1].k = bIn[3].k /\ bIn[1].v # bIn[3].v
    /\ bIn[2].k # bIn[1].k
    /\ bOut["ShareMap::from_iter"].ok
    /\ bOut["ShareMap::from_iter"].store = <<bIn[3].v, bIn[2].v>>

\* C10: into_snapshot consumes the holder; it returns None exactly when a
\* caller holds another pointer to the holder's current snapshot, and
\* otherwise the snapshot by value, with the contents the holder had.
C10_IntoSnapshotIfSole ==
    [][(holder = "live" /\ holder' \in {"into_snapshot_some", "into_snapshot_none"})
       => /\ datastore' = NoSnap
          /\ (holder' = "into_snapshot_none") <=> (ptrs[datastore] > 0)
          /\ holder' = "into_snapshot_some"
             => /\ owned'.some
                /\ [k \in Keys |-> FrozenGet(owned', stores', k)] = HolderView.get
                /\ FrozenLen(owned', stores') = HolderView.len]_vars

\* into_snapshot gave the snapshot by value although a caller still holds a
\* pointer to a snapshot that was replaced earlier.
C10_Witness ==
    /\ holder = "into_snapshot_some"
    /\ owned.some
    /\ TotalPtrs > 0

\* The values of the pairs of b, in the order of the pairs.
ValuesOf(b) == [i \in 1..Len(b) |-> b[i].v]

C22_IterYieldsEachEntryOnce ==
    bOut.kind # "none"
    => LET m == TryFromIter(bIn.pairs)
           N == MapValueLen(m)
           left(served) == IF served < N THEN N - served ELSE 0
       IN  /\ N = Len(bIn.pairs)
           /\ \A i \in 1..Len(bOut.items) :
                 /\ bOut.items[i] = IF i <= N
                                    THEN Some(<<bIn.order[i],
                                                MapValueGet(m, bIn.order[i])[1]>>)
                                    ELSE None
                 /\ bOut.lens[i] = left(i - 1)
           /\ IterLen(bOut.it) = left(Len(bOut.items))

\* A second iter() was made after the first had served one of three pairs,
\* and it has served all three pairs, in an order that is neither the order
\* of supply nor the reverse, and then None twice.
C22_Witness ==
    /\ bOut.kind = "Iter"
    /\ bOut.before = Some(1)
    /\ bIn.pairs = <<Pair("a", 1), Pair("b", 2), Pair("c", 1)>>
    /\ bOut.items = <<Some(<<"b", 2>>), Some(<<"c", 1>>), Some(<<"a", 1>>), None, None>>
    /\ bOut.lens = <<3, 2, 1, 0, 0>>

C24_StdMapRoundTrip ==
    \A c \in DOMAIN bOut :
       /\ bOut[c].share_map.ok
       /\ bOut[c].out = bIn
       /\ MapValueLen(bOut[c].share_map) = Cardinality(DOMAIN bIn)
       /\ \A k \in Keys : MapValueGet(bOut[c].share_map, k) = MapGet(bIn, k)

\* Both round trips ran on a map of three entries with unequal values; the
\* HashMap yielded its entries in an order other than that of the keys, so
\* the two ShareMaps number their slots differently.
C24_Witness ==
    /\ DOMAIN bOut = {"HashMap", "BTreeMap"}
    /\ bIn = [k \in Keys |-> IF k = "b" THEN 2 ELSE 1]
    /\ bOut["HashMap"].share_map.store = <<2, 1, 1>>
    /\ bOut["BTreeMap"].share_map.store = <<1, 2, 1>>
    /\ bOut["HashMap"].out = bIn /\ bOut["BTreeMap"].out = bIn

\* The pairs constructor c made its map of: none for default.
GivenTo(c, pairs) == IF c = "ShareMap::default" THEN <<>> ELSE pairs

\* C25: two ShareMaps are equal exactly when they have the same keys and
\* every key has equal values in both, that is when every key has the same
\* last value in the two inputs, whatever the order of the pairs, the slot
\* numbering and the constructors; and left == right agrees with
\* right == left.
C25_EqIsSameEntries ==
    bOut.kind = "maps"
    => LET l == GivenTo(bOut.by[1], bIn.left)
           r == GivenTo(bOut.by[2], bIn.right)
       IN  /\ bOut.eq <=> (\A k \in Keys : LastValue(l, k) = LastValue(r, k))
           /\ bOut.eq <=> (/\ DOMAIN bOut.left.index_map = DOMAIN bOut.right.index_map
                           /\ \A k \in Keys :
                                 MapValueGet(bOut.left, k) = MapValueGet(bOut.right, k))
           /\ bOut.eq <=> bOut.eq_rev

\* A map try_from_iter built of two pairs compared equal, both ways, to the
\* map from_iter built of the same pairs in the other order, whose slots are
\* numbered the other way round.
C25_Witness ==
    /\ bOut.kind = "maps"
    /\ bOut.by = <<"ShareMap::try_from_iter", "ShareMap::from_iter">>
    /\ bIn.left = <<Pair("a", 1), Pair("b", 2)>>
    /\ bIn.right = <<Pair("b", 2), Pair("a", 1)>>
    /\ bOut.left.store = <<1, 2>> /\ bOut.right.store = <<2, 1>>
    /\ bOut.eq /\ bOut.eq_rev

\* The owners of the value store sid: the caller's map and the handles.
OwnersOf(sid) ==
    (IF owned.some /\ owned.store = sid THEN 1 ELSE 0)
    + BagCardinality([h \in {x \in LiveHandles : x.store = sid} |-> CopiesIn(h, handles)])

\* C26: a clone of a handle refers to the store and the slot of the original
\* and is ref_eq to it; the clone adds one owner to the store and neither
\* allocates a store nor changes one; and every handle that is held stays
\* valid (its store is alive, owned once per handle, and the handle reads
\* the value it was made for) whichever handles and maps were dropped.
C26_CloneSharesStore ==
    /\ bOut.kind = "clone"
       => /\ bOut.clone.store = bOut.original.store
          /\ bOut.clone.index = bOut.original.index
          /\ bOut.ref_eq /\ bOut.value_ref_eq
          /\ bOut.strong_after = bOut.strong_before + 1
          /\ bOut.same_data
    /\ \A h \in LiveHandles :
          /\ stores[h.store].alive
          /\ stores[h.store].strong = OwnersOf(h.store)
          /\ Deref(h, stores) = h.orig

\* A handle to slot 1 was cloned; the map and one of the two handles were
\* dropped since, and the handle that is left is the one owner of the store.
C26_Witness ==
    /\ bOut.kind = "clone"
    /\ bOut.original.index = 1
    /\ ~owned.some
    /\ handles = SetToBag({bOut.clone})
    /\ stores[bOut.clone.store].strong = 1
    /\ Deref(bOut.clone, stores) = bIn.pairs[2].v

\* The index map of m sends its keys one-to-one onto the slots 0..N-1 of
\* the store of m, N being the store's length.
KeysOntoSlots(m) ==
    LET N == Len(m.store)
    IN  /\ MapLen(m.index_map) = N
        /\ \A k \in DOMAIN m.index_map : m.index_map[k] \in 0..(N - 1)
        /\ \A slot \in 0..(N - 1) :
              Cardinality({k \in DOMAIN m.index_map : m.index_map[k] = slot}) = 1

UncheckedConstructors ==
    {"ShareMap::from_iter", "ShareMap::default", "FrozenMap::default",
     "From<HashMap>", "From<BTreeMap>"}

\* C27: in every map a constructor returns, the index map has as many keys
\* as the store has values, every slot number it holds is below that
\* length, and every slot is the slot of exactly one key; from_iter, the
\* defaults and the conversions from std maps always return a map.
C27_KeysOntoSlots ==
    \A c \in DOMAIN bOut :
       /\ bOut[c].ok => KeysOntoSlots(bOut[c])
       /\ c \in UncheckedConstructors => bOut[c].ok

\* from_iter ran on three pairs whose first and last share a key and rebuilt
\* a map of two slots, the key supplied first now on the second slot.
C27_Witness ==
    /\ DOMAIN bOut = {"ShareMap::from_iter"}
    /\ bIn = <<Pair("a", 1), Pair("b", 2), Pair("a", 2)>>
    /\ bOut["ShareMap::from_iter"].index_map = [k \in {"a", "b"} |-> IF k = "a" THEN 1 ELSE 0]
    /\ bOut["ShareMap::from_iter"].store = <<2, 2>>

\* C28: every handle that is held has a slot number below the length of the
\* value store it refers to, and that store is alive, so the indexing in
\* deref is in bounds, whatever builds, stores, swaps, lookups and drops of
\* snapshots, maps, handles and the holder have happened.
C28_HandleSlotInBounds ==
    \A h \in LiveHandles :
       /\ stores[h.store].alive
       /\ h.index >= 0
       /\ h.index < Len(stores[h.store].vals)
       /\ Deref(h, stores) # Poison

\* A handle to the last slot of the first snapshot's store is held after
\* that snapshot was replaced and released and the holder has moved on to a
\* later build.
C28_Witness ==
    \E h \in LiveHandles :
       /\ h.store = 1
       /\ h.index = Len(stores[1].vals) - 1
       /\ h.index > 0
       /\ ~snaps[1].alive
       /\ holder = "live" /\ datastore > 1

\* The owners of the Arc cell of snapshot id: the holder, the pointers
\* callers hold, the load guards of reads in progress, and the thread that
\* built it and has yet to install it.  Handles are not among them.
SnapOwners(id) ==
    (IF datastore = id THEN 1 ELSE 0)
    + ptrs[id]
    + Cardinality({t \in Threads : local[t] = id})

\* The owners of the value store sid: the snapshots and by-value maps that
\* contain it and the handles into it.
StoreOwners(sid) ==
    Cardinality({id \in SnapIds : snaps[id].alive /\ snaps[id].store = sid})
    + OwnersOf(sid)

\* C29: a value store is alive exactly while it has an owner (a snapshot, a
\* map held by value or a handle), its owner count is the number of those,
\* and while alive it holds the values it was built with (those of the
\* first batch for the first store, those of one of the batches for a later
\* one); a snapshot's cell, with its index map, is alive exactly while the
\* holder, a caller's pointer or a read in progress refers to it, handles
\* into its value store notwithstanding.
C29_ReleasedWithLastOwner ==
    \A id \in SnapIds :
       /\ stores[id].alive <=> StoreOwners(id) > 0
       /\ stores[id].strong = StoreOwners(id)
       /\ stores[id].alive
          => /\ stores[id].vals \in {FromPairs(b).store : b \in Batches \ {BatchDup}}
             /\ id = 1 => stores[id].vals = FromPairs(BatchAB).store
       /\ snaps[id].alive <=> SnapOwners(id) > 0
       /\ snaps[id].strong = SnapOwners(id)
       /\ ~snaps[id].alive => snaps[id].index_map = EmptyMap

\* The holder has replaced the first snapshot and nothing points to it: its
\* cell and index map are released, while a handle, now the one owner of
\* its value store, still reads its value there.
C29_Witness ==
    /\ holder = "live" /\ datastore # 1
    /\ snaps[1] = FreedSnap
    /\ stores[1].alive /\ stores[1].strong = 1
    /\ \E h \in LiveHandles : h.store = 1 /\ Deref(h, stores) = h.orig
    /\ \A t \in Threads : pc[t] = "idle"

\* C30: from_iter on pairs with a repeated key returns a map whose store has
\* one slot per distinct key and nothing else: slot i holds the value of
\* the last pair of the i-th key in the iteration order of the deduplicated
\* index map, and the new index map sends that key to slot i.
C30_RebuildCompacts ==
    (bOut.kind = "from_iter" /\ HasDuplicateKey(bIn.pairs))
    => LET m == bOut.map
           N == Cardinality(KeysOf(bIn.pairs))
       IN  /\ m.ok
           /\ Len(m.store) = N
           /\ N < Len(bIn.pairs)
           /\ DOMAIN m.index_map = KeysOf(bIn.pairs)
           /\ \A i \in 1..N :
                 /\ Some(m.store[i]) = LastValue(bIn.pairs, bIn.order[i])
                 /\ m.index_map[bIn.order[i]] = i - 1

\* The first two of three pairs share a key and the map yields the other
\* key first: the rebuilt store holds that key's value and then the repeated
\* key's last value, the first pair's slot being gone.
C30_Witness ==
    /\ bOut.kind = "from_iter"
    /\ bIn.pairs = <<Pair("a", 1), Pair("a", 2), Pair("b", 1)>>
    /\ bIn.order = <<"b", "a">>
    /\ bOut.map.store = <<1, 2>>
    /\ bOut.map.index_map = [k \in {"a", "b"} |-> IF k = "b" THEN 0 ELSE 1]
====
